---- MODULE Spec2Model ----
(***************************************************************************)
(* Fetch-decode-execute engine of the Game Boy CPU core                    *)
(* (src/gameboy/cpu/cpu.rs).  The CPU engine (step, peek_next_instr,       *)
(* OpOk::ok and the executors op_ld, op_xor, op_invalid and the todo!()    *)
(* executors) is modelled from cpu.rs.  The register file (regs.rs), the   *)
(* decoder and its opcode table (instruction.rs) and the bus (bus.rs,      *)
(* testbus.rs) are not part of cpu.rs; they are modelled from the          *)
(* specification's description of them (sections 3, 4.1, 4.2, 6).          *)
(***************************************************************************)
EXTENDS Integers, Sequences, FiniteSets, TLC

VARIABLES
    regs,             \* CPU.regs : the register file (A..L, SP, PC, flags F)
    mem,              \* CPU.bus  : the bytes behind the bus (absent address = 0)
    cycles,           \* CPU.cycles : total amount of cycles
    overflow_checks,  \* build profile: TRUE = integer overflow panics (debug)
    status,           \* outcome of the latest step(): ok / err / panic; idle when
                      \* no step has run since construction or since the driver
                      \* last changed the CPU; panic also after a direct
                      \* executor call that panicked
    fault,            \* what made the latest step() fail ("" when it did not)
    last,             \* the instruction the latest step() decoded
    pre,              \* registers, memory and cycles on entry to the latest step()
    writes,           \* the bus writes of the latest step(), in order
    peeked,           \* what the driver's latest peek_next_instr() returned
    executed,         \* opcodes of the steps that succeeded, in order
    pokes             \* driver writes and direct executor calls made so far

vars == <<regs, mem, cycles, overflow_checks, status, fault, last, pre, writes,
          peeked, executed, pokes>>

-----------------------------------------------------------------------------
(* Widths and bounds *)

\* Number of values of a u8 (registers, memory bytes).
U8 == 256

\* Number of values of a u16 (PC, SP, register pairs, bus addresses).
U16 == 65536

\* Bound on the number of successful steps of one run.
MaxSteps == 2

\* Bound on the number of times the driver reaches into the CPU in one run
\* (a store to a register, the flags or memory, or a direct executor call).
MaxPokes == 3

Flags == {"Z", "N", "H", "C"}
Reg8 == {"A", "B", "C", "D", "E", "H", "L"}
Reg16 == {"BC", "DE", "HL", "SP", "PC"}

-----------------------------------------------------------------------------
(* Bus: byte-addressed memory over a 16-bit address space *)

\* Bus::read
BusRead(m, addr) == IF addr \in DOMAIN m THEN m[addr] ELSE 0

\* Bus::write
BusWrite(m, addr, val) ==
    [x \in (DOMAIN m) \cup {addr} |-> IF x = addr THEN val ELSE m[x]]

\* Testbus::from(code): the code bytes laid out from address base
Image(code, base) == [x \in base .. (base + Len(code) - 1) |-> code[x - base + 1]]

-----------------------------------------------------------------------------
(* Register file *)

\* RegisterFile::new
RegisterFile_new ==
    [A |-> 0, B |-> 0, C |-> 0, D |-> 0, E |-> 0, H |-> 0, L |-> 0,
     SP |-> 0, PC |-> 0,
     F |-> [Z |-> FALSE, N |-> FALSE, H |-> FALSE, C |-> FALSE]]

PairHi(reg) == CASE reg = "BC" -> "B" [] reg = "DE" -> "D" [] reg = "HL" -> "H"
PairLo(reg) == CASE reg = "BC" -> "C" [] reg = "DE" -> "E" [] reg = "HL" -> "L"

\* RegisterFile::read : any register as a 16-bit value
read(r, reg) ==
    IF reg \in Reg8 \cup {"SP", "PC"} THEN r[reg]
    ELSE r[PairHi(reg)] * U8 + r[PairLo(reg)]

\* RegisterFile::read8 : an 8-bit register, an error for a 16-bit one
read8(r, reg) ==
    IF reg \in Reg8 THEN [ok |-> TRUE, val |-> r[reg]]
    ELSE [ok |-> FALSE, val |-> 0]

\* RegisterFile::write : an error when the value does not fit the register
write(r, reg, val) ==
    IF reg \in Reg8
    THEN IF val < U8 THEN [ok |-> TRUE, regs |-> [r EXCEPT ![reg] = val]]
                     ELSE [ok |-> FALSE, regs |-> r]
    ELSE IF reg \in {"SP", "PC"}
    THEN [ok |-> TRUE, regs |-> [r EXCEPT ![reg] = val]]
    ELSE [ok |-> TRUE,
          regs |-> [r EXCEPT ![PairHi(reg)] = val \div U8,
                             ![PairLo(reg)] = val % U8]]

\* RegisterFile::read_dec : read the register, then decrement it (wrapping)
read_dec(r, reg) ==
    LET val == read(r, reg)
        width == IF reg \in Reg8 THEN U8 ELSE U16
        w == write(r, reg, (val + width - 1) % width)
    IN [ok |-> w.ok, regs |-> w.regs, val |-> val]

\* RegisterFile::write_flags : set the named flags, leave the others alone
write_flags(r, fv) ==
    [r EXCEPT !.F = [x \in Flags |-> IF x \in DOMAIN fv THEN fv[x] ELSE @[x]]]

\* RegisterFile::test_flag
test_flag(r, flag) == r.F[flag]

-----------------------------------------------------------------------------
(* Instruction decoder: operands, per-opcode descriptors, decode *)

OpRegister(reg) == [kind |-> "Register", reg |-> reg]
OpRegisterIndirect(reg) == [kind |-> "RegisterIndirect", reg |-> reg]
OpRegisterIndirectDec(reg) == [kind |-> "RegisterIndirectDec", reg |-> reg]
OpRegisterIndirectInc(reg) == [kind |-> "RegisterIndirectInc", reg |-> reg]
OpImmediate8 == [kind |-> "Immediate8", reg |-> "-"]
OpImmediate16 == [kind |-> "Immediate16", reg |-> "-"]
OpImmediateIndirect16 == [kind |-> "ImmediateIndirect16", reg |-> "-"]

\* The 3-bit register field of an opcode: B C D E H L (HL) A
R8Operand(i) ==
    IF i = 6 THEN OpRegisterIndirect("HL")
    ELSE OpRegister(<<"B", "C", "D", "E", "H", "L", "-", "A">>[i + 1])

\* The 2-bit register-pair field of an opcode: BC DE HL SP
R16Name(i) == <<"BC", "DE", "HL", "SP">>[i + 1]

\* The reserved opcodes of the primary table
InvalidOpcodes ==
    {\hD3, \hDB, \hDD, \hE3, \hE4, \hEB, \hEC, \hED, \hF4, \hFC, \hFD}

InstrDef(func, operands, len, cyc) ==
    [func |-> func, operands |-> operands, len |-> len, cycles |-> <<cyc>>]

HasIndirect(operands) ==
    \E i \in 1 .. Len(operands) : operands[i].kind = "RegisterIndirect"

\* The static descriptor of a primary-table opcode: executor, operand
\* shapes, length and cycle cost.  The LD and XOR families and the reserved
\* opcodes are spelled out; every other opcode has an executor that is
\* todo!() in cpu.rs.
Def(op) ==
    CASE op \in InvalidOpcodes -> InstrDef("op_invalid", <<>>, 1, 4)
      [] op \in {\h01, \h11, \h21, \h31} ->
            InstrDef("op_ld", <<OpRegister(R16Name(op \div 16)), OpImmediate16>>, 3, 12)
      [] op = \h08 ->
            InstrDef("op_ld", <<OpImmediateIndirect16, OpRegister("SP")>>, 3, 20)
      [] op \in {\h02, \h12} ->
            InstrDef("op_ld", <<OpRegisterIndirect(R16Name(op \div 16)), OpRegister("A")>>, 1, 8)
      [] op = \h22 ->
            InstrDef("op_ld", <<OpRegisterIndirectInc("HL"), OpRegister("A")>>, 1, 8)
      [] op = \h32 ->
            InstrDef("op_ld", <<OpRegisterIndirectDec("HL"), OpRegister("A")>>, 1, 8)
      [] op \in {\h0A, \h1A} ->
            InstrDef("op_ld", <<OpRegister("A"), OpRegisterIndirect(R16Name(op \div 16))>>, 1, 8)
      [] op = \h2A ->
            InstrDef("op_ld", <<OpRegister("A"), OpRegisterIndirectInc("HL")>>, 1, 8)
      [] op = \h3A ->
            InstrDef("op_ld", <<OpRegister("A"), OpRegisterIndirectDec("HL")>>, 1, 8)
      [] op < \h40 /\ op % 8 = 6 ->
            InstrDef("op_ld", <<R8Operand(op \div 8), OpImmediate8>>, 2,
                     IF op = \h36 THEN 12 ELSE 8)
      [] op >= \h40 /\ op < \h80 /\ op # \h76 ->
            LET ops == <<R8Operand((op - \h40) \div 8), R8Operand(op % 8)>>
            IN InstrDef("op_ld", ops, 1, IF HasIndirect(ops) THEN 8 ELSE 4)
      [] op >= \hA8 /\ op < \hB0 ->
            LET ops == <<R8Operand(op % 8)>>
            IN InstrDef("op_xor", ops, 1, IF HasIndirect(ops) THEN 8 ELSE 4)
      [] op = \hEE -> InstrDef("op_xor", <<OpImmediate8>>, 2, 8)
      [] op = \hEA ->
            InstrDef("op_ld", <<OpImmediateIndirect16, OpRegister("A")>>, 3, 16)
      [] op = \hFA ->
            InstrDef("op_ld", <<OpRegister("A"), OpImmediateIndirect16>>, 3, 16)
      [] op = \hE2 ->
            InstrDef("op_ld", <<OpRegisterIndirect("C"), OpRegister("A")>>, 1, 8)
      [] op = \hF2 ->
            InstrDef("op_ld", <<OpRegister("A"), OpRegisterIndirect("C")>>, 1, 8)
      [] op = \hF9 ->
            InstrDef("op_ld", <<OpRegister("SP"), OpRegister("HL")>>, 1, 8)
      [] op = \hCB -> InstrDef("op_prefix_cb", <<>>, 2, 4)
      [] OTHER -> InstrDef("op_todo", <<>>, 1, 4)

\* An Instruction: the opcode, its descriptor and its encoded bytes
Instruction(op, raw) ==
    LET def == Def(op)
    IN [ok |-> TRUE, op |-> op, func |-> def.func, operands |-> def.operands,
        len |-> def.len, cycles |-> def.cycles, raw |-> raw]

\* A decode fault: the byte source ran out before the instruction's end
DecodeFault ==
    [ok |-> FALSE, op |-> -1, func |-> "none", operands |-> <<>>,
     len |-> 0, cycles |-> <<>>, raw |-> <<>>]

\* No instruction yet
NoInstr ==
    [ok |-> FALSE, op |-> -2, func |-> "none", operands |-> <<>>,
     len |-> 0, cycles |-> <<>>, raw |-> <<>>]

\* Instruction::decode over a BusIterator that starts at addr and ends with
\* the address space
decode(m, addr) ==
    LET op == BusRead(m, addr)
        len == Def(op).len
    IN IF addr + len > U16 THEN DecodeFault
       ELSE Instruction(op, [i \in 1 .. len |-> BusRead(m, addr + i - 1)])

\* Instruction::imm16 : the 16-bit immediate after the opcode, little-endian
imm16(instr, n) ==
    IF Len(instr.raw) < n + 3 THEN [ok |-> FALSE, val |-> 0]
    ELSE [ok |-> TRUE, val |-> instr.raw[n + 2] + U8 * instr.raw[n + 3]]

-----------------------------------------------------------------------------
(* Executors: each takes the CPU (registers, memory, the bus writes made so
   far) and the decoded instruction, and returns Ok(OpOk{pc, cycles}), an
   Err, or panics; registers and memory are mutated in place on the way. *)

Fail(c, out, why) ==
    [out |-> out, fault |-> why, regs |-> c.regs, mem |-> c.mem,
     writes |-> c.writes, pc |-> c.regs.PC, cycles |-> 0]

\* OpOk::ok : PC moves to the next instruction, fixed cycle count.  The
\* addition is a plain u16 "+": it panics on overflow when the build checks
\* overflow (debug profile) and wraps when it does not (release profile).
OpOk_ok(c, instr) ==
    LET sum == c.regs.PC + instr.len
    IN IF sum >= U16 /\ overflow_checks THEN Fail(c, "panic", "overflow")
       ELSE [out |-> "ok", fault |-> "", regs |-> c.regs, mem |-> c.mem,
             writes |-> c.writes, pc |-> sum % U16, cycles |-> instr.cycles[1]]

\* op_ld's source operand with LD _,imm16 reading an 8-bit immediate
op_ld_source_imm8(c, instr) ==
    LET src == instr.operands[2]
    IN CASE src.kind = "Immediate16" ->
               [out |-> "ok", fault |-> "", val |-> instr.raw[2]]
         [] src.kind = "Register" ->
               [out |-> "ok", fault |-> "", val |-> read(c.regs, src.reg)]
         [] OTHER -> [out |-> "panic", fault |-> "todo", val |-> 0]

\* CPU::op_ld, source operand: the value to load, an Err, or todo!()
op_ld_source(c, instr) ==
    LET src == instr.operands[2]
    IN CASE src.kind = "Immediate16" ->
               LET i == imm16(instr, 0)
               IN [out |-> IF i.ok THEN "ok" ELSE "err", fault |-> "imm16", val |-> i.val]
         [] src.kind = "Register" ->
               [out |-> "ok", fault |-> "", val |-> read(c.regs, src.reg)]
         [] OTHER -> [out |-> "panic", fault |-> "todo", val |-> 0]

\* op_ld's destination operand with LD (reg-),_ storing at the address
\* left in the register after the decrement
op_ld_dest_predec(c, instr, val) ==
    LET dst == instr.operands[1]
    IN CASE dst.kind = "Register" ->
               LET w == write(c.regs, dst.reg, val)
               IN [ok |-> w.ok, fault |-> "write", cpu |-> [c EXCEPT !.regs = w.regs]]
         [] dst.kind = "RegisterIndirectDec" ->
               LET rd == read_dec(c.regs, dst.reg)
                   c1 == [c EXCEPT !.regs = rd.regs]
                   addr == read(rd.regs, dst.reg)
               IN IF ~rd.ok THEN [ok |-> FALSE, fault |-> "read_dec", cpu |-> c1]
                  ELSE IF val >= U8 THEN [ok |-> FALSE, fault |-> "try_into", cpu |-> c1]
                  ELSE [ok |-> TRUE, fault |-> "",
                        cpu |-> [c1 EXCEPT !.mem = BusWrite(c.mem, addr, val),
                                           !.writes = Append(c.writes, <<addr, val>>)]]
         [] OTHER -> [ok |-> FALSE, fault |-> "bail", cpu |-> c]

\* op_ld's destination operand with LD reg,_ also setting Z from the value
op_ld_dest_flags(c, instr, val) ==
    LET dst == instr.operands[1]
    IN CASE dst.kind = "Register" ->
               LET w == write(c.regs, dst.reg, val)
               IN [ok |-> w.ok, fault |-> "write",
                   cpu |-> [c EXCEPT !.regs =
                               write_flags(w.regs, [x \in {"Z"} |-> val = 0])]]
         [] dst.kind = "RegisterIndirectDec" ->
               LET rd == read_dec(c.regs, dst.reg)
                   c1 == [c EXCEPT !.regs = rd.regs]
               IN IF ~rd.ok THEN [ok |-> FALSE, fault |-> "read_dec", cpu |-> c1]
                  ELSE IF val >= U8 THEN [ok |-> FALSE, fault |-> "try_into", cpu |-> c1]
                  ELSE [ok |-> TRUE, fault |-> "",
                        cpu |-> [c1 EXCEPT !.mem = BusWrite(c.mem, rd.val, val),
                                           !.writes = Append(c.writes, <<rd.val, val>>)]]
         [] OTHER -> [ok |-> FALSE, fault |-> "bail", cpu |-> c]

\* op_ld's destination operand with every indirect destination resolved
\* through read_dec before the unsupported shapes are rejected
op_ld_dest_latebail(c, instr, val) ==
    LET dst == instr.operands[1]
    IN CASE dst.kind = "Register" ->
               LET w == write(c.regs, dst.reg, val)
               IN [ok |-> w.ok, fault |-> "write", cpu |-> [c EXCEPT !.regs = w.regs]]
         [] dst.kind \in {"RegisterIndirectDec", "RegisterIndirect",
                          "RegisterIndirectInc"} ->
               LET rd == read_dec(c.regs, dst.reg)
                   c1 == [c EXCEPT !.regs = rd.regs]
               IN IF ~rd.ok THEN [ok |-> FALSE, fault |-> "read_dec", cpu |-> c1]
                  ELSE IF dst.kind # "RegisterIndirectDec"
                  THEN [ok |-> FALSE, fault |-> "bail", cpu |-> c1]
                  ELSE IF val >= U8 THEN [ok |-> FALSE, fault |-> "try_into", cpu |-> c1]
                  ELSE [ok |-> TRUE, fault |-> "",
                        cpu |-> [c1 EXCEPT !.mem = BusWrite(c.mem, rd.val, val),
                                           !.writes = Append(c.writes, <<rd.val, val>>)]]
         [] OTHER -> [ok |-> FALSE, fault |-> "bail", cpu |-> c]

\* CPU::op_ld, destination operand: the CPU after the store, or an Err.
\* For LD (reg-),_ the arguments of bus.write are evaluated in order:
\* read_dec has decremented the register before val.try_into() is tried.
op_ld_dest(c, instr, val) ==
    LET dst == instr.operands[1]
    IN CASE dst.kind = "Register" ->
               LET w == write(c.regs, dst.reg, val)
               IN [ok |-> w.ok, fault |-> "write", cpu |-> [c EXCEPT !.regs = w.regs]]
         [] dst.kind = "RegisterIndirectDec" ->
               LET rd == read_dec(c.regs, dst.reg)
                   c1 == [c EXCEPT !.regs = rd.regs]
               IN IF ~rd.ok THEN [ok |-> FALSE, fault |-> "read_dec", cpu |-> c1]
                  ELSE IF val >= U8 THEN [ok |-> FALSE, fault |-> "try_into", cpu |-> c1]
                  ELSE [ok |-> TRUE, fault |-> "",
                        cpu |-> [c1 EXCEPT !.mem = BusWrite(c.mem, rd.val, val),
                                           !.writes = Append(c.writes, <<rd.val, val>>)]]
         [] OTHER -> [ok |-> FALSE, fault |-> "bail", cpu |-> c]

\* CPU::op_ld : LD - Load Register
op_ld(c, instr) ==
    LET s == op_ld_source(c, instr)
    IN IF s.out # "ok" THEN Fail(c, s.out, s.fault)
       ELSE LET d == op_ld_dest(c, instr, s.val)
            IN IF ~d.ok THEN Fail(d.cpu, "err", d.fault)
               ELSE OpOk_ok(d.cpu, instr)

RECURSIVE BitXor(_, _, _)
\* a ^ b on n-bit values
BitXor(a, b, n) ==
    IF n = 0 THEN 0
    ELSE ((a + b) % 2) + 2 * BitXor(a \div 2, b \div 2, n - 1)

\* op_xor with the operand read from A instead of the selected register
op_xor_reads_a(c, instr) ==
    LET a == read8(c.regs, "A")
        opnd == instr.operands[1]
    IN IF ~a.ok THEN Fail(c, "err", "read8")
       ELSE IF opnd.kind # "Register" THEN Fail(c, "panic", "todo")
       ELSE LET v == read8(c.regs, "A")
            IN IF ~v.ok THEN Fail(c, "err", "read8")
               ELSE LET result == BitXor(a.val, v.val, 8)
                        w == write(c.regs, "A", result)
                    IN IF ~w.ok THEN Fail(c, "err", "write")
                       ELSE OpOk_ok([c EXCEPT !.regs =
                                    write_flags(w.regs, [x \in {"Z"} |-> result = 0])],
                                instr)

\* CPU::op_xor : XOR - Bitwise XOR
op_xor(c, instr) ==
    LET a == read8(c.regs, "A")
        opnd == instr.operands[1]
    IN IF ~a.ok THEN Fail(c, "err", "read8")
       ELSE IF opnd.kind # "Register" THEN Fail(c, "panic", "todo")
       ELSE LET v == read8(c.regs, opnd.reg)
            IN IF ~v.ok THEN Fail(c, "err", "read8")
               ELSE LET result == BitXor(a.val, v.val, 8)
                        w == write(c.regs, "A", result)
                    IN IF ~w.ok THEN Fail(c, "err", "write")
                       ELSE OpOk_ok([c EXCEPT !.regs =
                                    write_flags(w.regs, [x \in {"Z"} |-> result = 0])],
                                instr)

\* op_invalid behaving as a normal successful op
op_invalid_as_nop(c, instr) == OpOk_ok(c, instr)

\* CPU::op_invalid : panic!("Invalid opcode")
op_invalid(c, instr) == Fail(c, "panic", "invalid")

\* CPU::op_nop and every other executor whose body is todo!()
op_todo(c, instr) == Fail(c, "panic", "todo")

\* (instr.def.func)(self, &instr) : dispatch through the descriptor
Exec(c, instr) ==
    CASE instr.func = "op_ld" -> op_ld(c, instr)
      [] instr.func = "op_xor" -> op_xor(c, instr)
      [] instr.func = "op_invalid" -> op_invalid(c, instr)
      [] OTHER -> op_todo(c, instr)

-----------------------------------------------------------------------------
(* The CPU engine *)

\* CPU::peek_next_instr : decode at PC over a shared borrow of the bus
peek_next_instr(r, m) == decode(m, r.PC)

\* CPU::step, "self.regs.pc = result.pc"
CommitPc(r, result) == [r EXCEPT !.PC = result.pc]

\* The cycle commit assigning the step's cycles instead of adding them
CommitCycles_assign(total, result) == result.cycles

\* CPU::step, "self.cycles += result.cycles"
CommitCycles(total, result) == total + result.cycles

\* CPU::get_cycles
get_cycles == cycles

Snapshot == [regs |-> regs, mem |-> mem, cycles |-> cycles]

\* CPU::step : decode at PC, run the executor, commit PC and cycles.  A
\* decode fault or an executor's Err returns before the commit; a panic
\* never reaches it.  Whatever the executor had mutated stays mutated.
step ==
    /\ status # "panic"
    /\ Len(executed) < MaxSteps
    /\ LET instr == peek_next_instr(regs, mem)
           c == [regs |-> regs, mem |-> mem, writes |-> <<>>]
           r == IF instr.ok THEN Exec(c, instr) ELSE Fail(c, "err", "decode")
       IN /\ regs' = IF r.out = "ok" THEN CommitPc(r.regs, r) ELSE r.regs
          /\ mem' = r.mem
          /\ cycles' = IF r.out = "ok" THEN CommitCycles(cycles, r) ELSE cycles
          /\ status' = r.out
          /\ fault' = r.fault
          /\ last' = instr
          /\ writes' = r.writes
          /\ executed' = IF r.out = "ok" THEN Append(executed, instr.op) ELSE executed
    /\ pre' = Snapshot
    /\ peeked' = NoInstr
    /\ UNCHANGED <<overflow_checks, pokes>>

\* peek_next_instr() leaving PC where its byte iterator stopped
peek_advances_pc ==
    /\ status # "panic"
    /\ peeked' = peek_next_instr(regs, mem)
    /\ regs' = [regs EXCEPT !.PC = (@ + peeked'.len) % U16]
    /\ UNCHANGED <<mem, cycles, overflow_checks, status, fault, last, pre,
                   writes, executed, pokes>>

\* The driver calls peek_next_instr() for inspection
peek ==
    /\ status # "panic"
    /\ peeked' = peek_next_instr(regs, mem)
    /\ UNCHANGED <<regs, mem, cycles, overflow_checks, status, fault, last, pre,
                   writes, executed, pokes>>

\* The driver reached into the CPU: what the latest step() left behind no
\* longer describes the CPU, and an earlier peek is out of date.
Touched(out, why) ==
    /\ pokes < MaxPokes
    /\ pokes' = pokes + 1
    /\ status' = out
    /\ fault' = why
    /\ last' = NoInstr
    /\ pre' = [regs |-> regs', mem |-> mem', cycles |-> cycles']
    /\ writes' = <<>>
    /\ peeked' = NoInstr
    /\ UNCHANGED <<overflow_checks, executed>>

\* The values the tests store into the public register file:
\* a = 0x55, 0xAA, 0x5A; b = 0xAA, 0x55; (h, l) = (0x11, 0x22).
PokeVals(field) ==
    CASE field = "A" -> {\h55, \hAA, \h5A}
      [] field = "B" -> {\hAA, \h55}
      [] field = "HL" -> {\h1122}

\* Program counters the driver stores to run code that ends with the
\* address space (1-byte and 3-byte instructions)
PcPokeVals == {\hFFFD, \hFFFF}

\* The driver stores into cpu.regs, before or between steps
poke_reg ==
    /\ status # "panic"
    /\ \/ \E field \in {"A", "B", "HL"} : \E v \in PokeVals(field) :
              regs' = write(regs, field, v).regs
       \/ \E v \in PcPokeVals : regs' = write(regs, "PC", v).regs
    /\ UNCHANGED <<mem, cycles>>
    /\ Touched("idle", "")

\* Flag settings the driver stores: C alone, N and H, all four
FlagSamples ==
    { [Z |-> FALSE, N |-> FALSE, H |-> FALSE, C |-> TRUE],
      [Z |-> FALSE, N |-> TRUE, H |-> TRUE, C |-> FALSE],
      [Z |-> TRUE, N |-> TRUE, H |-> TRUE, C |-> TRUE] }

\* The driver sets the flags through cpu.regs, before or between steps
poke_flags ==
    /\ status # "panic"
    /\ \E fv \in FlagSamples : regs' = write_flags(regs, fv)
    /\ UNCHANGED <<mem, cycles>>
    /\ Touched("idle", "")

\* The driver writes a byte through cpu.bus, before or between steps
poke_mem ==
    /\ status # "panic"
    /\ \E addr \in {0, 1} : mem' = BusWrite(mem, addr, \hA8)
    /\ UNCHANGED <<regs, cycles>>
    /\ Touched("idle", "")

\* The driver runs the executor of the instruction at PC itself (the op_*
\* functions are pub) instead of step(): registers and memory change as the
\* executor changes them, the returned OpOk is dropped, so PC and the cycle
\* total stay, and nothing counts as a step.
call_op ==
    /\ status # "panic"
    /\ LET instr == peek_next_instr(regs, mem)
           c == [regs |-> regs, mem |-> mem, writes |-> <<>>]
           r == Exec(c, instr)
       IN /\ instr.ok
          /\ regs' = r.regs
          /\ mem' = r.mem
          /\ UNCHANGED cycles
          /\ IF r.out = "panic" THEN Touched("panic", r.fault)
                                ELSE Touched("idle", "")

-----------------------------------------------------------------------------
(* Specifications *)

\* Code placed at the start of the address space (PC = 0 after construction)
Programs ==
    { <<\h31, \h34, \h12>>,        \* LD SP,0x1234
      <<\h21, \h22, \h11, \h32>>,  \* LD HL,0x1122 ; LD (HL-),A
      <<\hA8>>,                    \* XOR B
      <<\hAF, \hA8>>,              \* XOR A ; XOR B
      <<\hA8, \h78>>,              \* XOR B ; LD A,B
      <<\h32>>,                    \* LD (HL-),A
      <<\h32, \h47>>,              \* LD (HL-),A ; LD B,A
      <<\h78>>,                    \* LD A,B
      <<\h65>>,                    \* LD H,L
      <<\hF9>>,                    \* LD SP,HL
      <<\hD3>>,                    \* reserved
      <<\h78, \hFD>>,              \* LD A,B ; reserved
      <<\h77>>,                    \* LD (HL),A : destination not supported
      <<\h22>>,                    \* LD (HL+),A : destination not supported
      <<\h3E, \h12>>,              \* LD A,d8 : source todo!()
      <<\hAE>>,                    \* XOR (HL) : todo!()
      <<\h00>> }                   \* NOP : todo!()

\* Code placed so that it ends with the address space
TopPrograms ==
    { <<\h31, \h34, \h12>>,        \* at 0xFFFD; 0x12 at 0xFFFF is LD (DE),A
      <<\hA8>>,                    \* XOR B at 0xFFFF
      <<\h78>>,                    \* LD A,B at 0xFFFF
      <<\h32>>,                    \* LD (HL-),A at 0xFFFF
      <<\h21>>,                    \* LD HL,d16 cut off by the end of memory
      <<\hEB>> }                   \* reserved at 0xFFFF

Images ==
    {Image(code, 0) : code \in Programs}
        \cup {Image(code, U16 - Len(code)) : code \in TopPrograms}

\* A CPU on a bus that holds m, with register file r, about to be stepped
Start(m, r) ==
    /\ regs = r
    /\ mem = m
    /\ cycles = 0
    /\ status = "idle"
    /\ fault = ""
    /\ last = NoInstr
    /\ pre = [regs |-> r, mem |-> m, cycles |-> 0]
    /\ writes = <<>>
    /\ peeked = NoInstr
    /\ executed = <<>>
    /\ pokes = 0

\* CPU::new(bus) on a bus that holds m
New(m) == Start(m, RegisterFile_new)

Init ==
    /\ overflow_checks \in BOOLEAN
    /\ \E m \in Images : New(m)

Next == step \/ peek \/ poke_reg \/ poke_flags \/ poke_mem \/ call_op

Spec == Init /\ [][Next]_vars

\* LD SP,imm16 for every 16-bit immediate, on a fresh CPU
InitLdImm16 ==
    /\ overflow_checks \in BOOLEAN
    /\ \E v \in 0 .. (U16 - 1) : New(Image(<<\h31, v % U8, v \div U8>>, 0))

SpecLdImm16 == InitLdImm16 /\ [][step]_vars

\* Register values tried where a full sweep is not
ByteSamples == {\h00, \h01, \h5A, \hFF}

\* The XOR r opcodes: B C D E H L A
XorRegOpcodes == {\hA8, \hA9, \hAA, \hAB, \hAC, \hAD, \hAF}

\* XOR B for every A and B; the other XOR r for every A and sampled r
InitXor ==
    /\ overflow_checks \in BOOLEAN
    /\ \E op \in XorRegOpcodes : \E a \in 0 .. (U8 - 1) :
       \E b \in (IF op = \hA8 THEN 0 .. (U8 - 1) ELSE ByteSamples) :
           LET r == Def(op).operands[1].reg
               r1 == [RegisterFile_new EXCEPT ![r] = b]
           IN Start(Image(<<op>>, 0), [r1 EXCEPT !.A = a])

SpecXor == InitXor /\ [][step]_vars

\* LD (HL-),A for every HL with A = 0x5A, and for every A with sampled HL
InitLdDec ==
    /\ overflow_checks \in BOOLEAN
    /\ \E ha \in ((0 .. (U16 - 1)) \X {\h5A})
                    \cup ({\h0000, \h0001, \h1122, \hFFFF} \X (0 .. (U8 - 1))) :
           Start(Image(<<\h32>>, 0),
                 [write(RegisterFile_new, "HL", ha[1]).regs EXCEPT !.A = ha[2]])

SpecLdDec == InitLdDec /\ [][step]_vars

-----------------------------------------------------------------------------
(* Properties *)

Bit(x, i) == (x \div (2 ^ i)) % 2

\* x is the bitwise exclusive-or of the bytes a and b
IsXorOf(x, a, b) ==
    /\ x \in 0 .. (U8 - 1)
    /\ \A i \in 0 .. 7 : Bit(x, i) = (IF Bit(a, i) = Bit(b, i) THEN 0 ELSE 1)

\* The latest step() ran to its end and returned Ok
Stepped == status = "ok"

\* The latest step() decoded a register-to-register 8-bit load
IsLdReg8Reg8 ==
    /\ last.func = "op_ld"
    /\ last.operands[1].kind = "Register" /\ last.operands[1].reg \in Reg8
    /\ last.operands[2].kind = "Register" /\ last.operands[2].reg \in Reg8

\* The latest step() decoded XOR r
IsXorReg == last.func = "op_xor" /\ last.operands[1].kind = "Register"

RECURSIVE SumCycles(_)
\* The declared base costs of a sequence of opcodes, added up
SumCycles(ops) ==
    IF ops = <<>> THEN 0 ELSE Def(Head(ops)).cycles[1] + SumCycles(Tail(ops))

\* C1: on a fresh CPU (PC = 0, cycles = 0) whose memory starts with
\* 0x31, lo, hi, the first step succeeds and leaves SP = hi * 256 + lo
\* (little-endian immediate), PC = 3 and the cycle total equal to the
\* instruction's declared base cost.
C1_LdSpImm16 ==
    (status # "idle" /\ last.op = \h31 /\ pre.regs.PC = 0 /\ pre.cycles = 0)
        => /\ Stepped
           /\ regs.SP = U8 * BusRead(pre.mem, 2) + BusRead(pre.mem, 1)
           /\ regs.PC = 3
           /\ get_cycles = last.cycles[1]

C1_Witness ==
    /\ Stepped /\ last.op = \h31 /\ pre.cycles = 0
    /\ BusRead(pre.mem, 1) = \h34 /\ BusRead(pre.mem, 2) = \h12
    /\ regs.SP = \h1234 /\ regs.PC = 3 /\ cycles = 12

\* C2: a step of XOR r with A = a and r = b leaves A = a XOR b and Z set
\* exactly when that is zero; r keeps its value unless r is A.
C2_XorReg ==
    (status # "idle" /\ IsXorReg /\ pre.regs.PC + last.len < U16)
        => LET r == last.operands[1].reg
           IN /\ Stepped
              /\ IsXorOf(regs.A, pre.regs.A, pre.regs[r])
              /\ test_flag(regs, "Z") = (regs.A = 0)
              /\ (r # "A" => regs[r] = pre.regs[r])

C2_Witness ==
    /\ Stepped /\ last.op = \hA8
    /\ pre.regs.A = \h55 /\ pre.regs.B = \hAA
    /\ regs.A = \hFF /\ ~test_flag(regs, "Z") /\ regs.B = \hAA

\* C3: after a successful step of an XOR instruction the flags N, H and C
\* are all clear, whatever they were before, and Z tells whether A is zero.
C3_XorClearsNHC ==
    (Stepped /\ last.func = "op_xor")
        => /\ ~test_flag(regs, "N") /\ ~test_flag(regs, "H") /\ ~test_flag(regs, "C")
           /\ test_flag(regs, "Z") = (regs.A = 0)

\* C4: a step of LD (HL-),A with HL = h and A = a makes exactly one bus
\* write, of a to address h, leaves every other byte alone, and leaves
\* HL = (h - 1) mod 65536 and A = a.
C4_LdHlDecA ==
    (status # "idle" /\ last.op = \h32 /\ pre.regs.PC + last.len < U16)
        => LET h == read(pre.regs, "HL")
               a == pre.regs.A
           IN /\ Stepped
              /\ writes = <<<<h, a>>>>
              /\ BusRead(mem, h) = a
              /\ \A x \in ((DOMAIN mem) \cup (DOMAIN pre.mem)) \ {h} :
                     BusRead(mem, x) = BusRead(pre.mem, x)
              /\ read(regs, "HL") = (h + U16 - 1) % U16
              /\ regs.A = a

C4_Witness ==
    /\ Stepped /\ last.op = \h32
    /\ read(pre.regs, "HL") = \h1122 /\ pre.regs.A = \h5A
    /\ BusRead(mem, \h1122) = \h5A /\ read(regs, "HL") = \h1121

\* C5: a successful register-to-register 8-bit load changes only the
\* destination register and PC (and the cycle total): the destination has
\* the source's old value, every other register and SP, the four flags and
\* all of memory are as before, and no bus write was made.
C5_LdRegRegFrame ==
    (Stepped /\ IsLdReg8Reg8)
        => LET d == last.operands[1].reg
               s == last.operands[2].reg
           IN /\ regs[d] = pre.regs[s]
              /\ \A x \in (Reg8 \cup {"SP"}) \ {d} : regs[x] = pre.regs[x]
              /\ regs.F = pre.regs.F
              /\ mem = pre.mem
              /\ writes = <<>>

C5_Witness ==
    /\ Stepped /\ last.op = \h78
    /\ pre.regs.B = \h55 /\ pre.regs.A = \hAA /\ pre.regs.F.C /\ pre.regs.F.Z
    /\ regs.A = \h55 /\ regs.B = \h55

\* C6: a step whose opcode is one of the reserved ones decodes it to the
\* invalid-opcode instruction and faults in its executor: the step does not
\* succeed, and PC, the cycle total, the registers and memory stay as they
\* were.
C6_InvalidFaults ==
    (status # "idle" /\ last.ok /\ last.op \in InvalidOpcodes)
        => /\ last.func = "op_invalid"
           /\ status = "panic" /\ fault = "invalid"
           /\ regs = pre.regs /\ cycles = pre.cycles /\ mem = pre.mem

C6_Witness ==
    /\ status = "panic" /\ last.op = \hFD /\ last.func = "op_invalid"
    /\ regs.PC = 1 /\ cycles = 4

\* C7: peek_next_instr() changes no register, flag, PC, SP, cycle total or
\* memory byte; a second call with nothing in between returns the same
\* instruction; and the step that follows executes the instruction that
\* the call returned.
C7_PeekPure ==
    [][ /\ (peeked' # NoInstr) =>
               /\ regs' = regs /\ mem' = mem /\ cycles' = cycles
               /\ (peeked # NoInstr => peeked' = peeked)
        /\ (peeked # NoInstr /\ peeked' = NoInstr /\ last' # NoInstr) =>
               last' = peeked
      ]_vars

C7_Witness ==
    /\ Stepped /\ last.op = \h32 /\ Len(executed) = 2
    /\ peeked.ok /\ peeked.op = \h00

\* C8: the program counter wraps modulo 65536: a successful step of a
\* non-branch instruction of length n at PC = p leaves PC = (p + n) mod
\* 65536, and computing the next PC never panics.
C8_PcWraps ==
    /\ Stepped => regs.PC = (pre.regs.PC + last.len) % U16
    /\ fault # "overflow"

\* C9: a step that returns an error commits nothing: PC, the cycle total,
\* every register and flag and every memory byte are what they were on
\* entry, no bus write was made, and no instruction counts as executed.
C9_FailedStepCommitsNothing ==
    (status = "err")
        => /\ regs = pre.regs
           /\ mem = pre.mem
           /\ cycles = pre.cycles
           /\ writes = <<>>
           /\ cycles = SumCycles(executed)

C9_Witness ==
    /\ status = "err" /\ fault = "bail" /\ last.op = \h77
    /\ regs.A = \h5A /\ read(regs, "HL") = \h1122 /\ regs.F.C

\* C10: the cycle total is 0 until a step succeeds, equals the sum of the declared
\* base costs of the instructions whose steps succeeded, never decreases,
\* and a successful step adds exactly the base cost of the opcode decoded.
C10_CyclesRunningSum ==
    /\ executed = <<>> => get_cycles = 0
    /\ get_cycles = SumCycles(executed)
    /\ get_cycles >= pre.cycles
    /\ Stepped => get_cycles = pre.cycles + Def(last.op).cycles[1]

C10_Witness ==
    /\ Stepped /\ executed = <<\h21, \h32>> /\ get_cycles = 20 /\ pre.cycles = 12

====
